---------------------------- MODULE Spec2Model ----------------------------
(***************************************************************************)
(* A model of the quadtree of src/src/lib.rs (Vector2, Rect, Quadtree) and *)
(* of the range query of src/src/main.rs.                                  *)
(*                                                                         *)
(* Coordinates are values of a binary floating-point type (T: Float).  A   *)
(* value is written as an integer number of units of the smallest         *)
(* subnormal; it is representable when its magnitude has at most PrecBits  *)
(* significant bits.  Sums are rounded to nearest, ties to even, as the    *)
(* hardware does; halving is exact except for an odd number of units.      *)
(***************************************************************************)
EXTENDS Integers, Sequences, FiniteSets, TLC

VARIABLES
    tree,        \* the root Quadtree the caller owns
    op,          \* the last operation the caller ran
    location,    \* the argument of the last insert
    ret,         \* what the last insert returned
    range,       \* the argument of the last query, <<>> when there is none
    found,       \* what the last query returned
    accepted,    \* history: how often insert returned true for each point
    inserts,     \* history: insert calls since construction or the last clear
    wiped,       \* history: the points and the nodes the tree held when the
                 \* last operation, a clear, began
    rself,       \* Rect operations: the receiver, <<>> when there is none
    rarg,        \* Rect operations: the argument (a Rect or a Vector2)
    rres         \* Rect operations: the result

vars == <<tree, op, location, ret, range, found, accepted, inserts, wiped,
          rself, rarg, rres>>
rectVars == <<rself, rarg, rres>>

-----------------------------------------------------------------------------
(* Bounds of the model *)

PrecBits == 2        \* significant bits of the floating-point type
MaxInserts == 3      \* insert calls between two clears

-----------------------------------------------------------------------------
(* The floating-point type T *)

RECURSIVE Pow2(_)
Pow2(k) == IF k = 0 THEN 1 ELSE 2 * Pow2(k - 1)

\* magnitudes below Limit are whole numbers of units and all representable
Limit == Pow2(PrecBits)

\* the spacing of the representable values around the magnitude m
RECURSIVE Ulp(_, _)
Ulp(m, u) == IF m < u * Limit THEN u ELSE Ulp(m, 2 * u)

\* a magnitude rounded to PrecBits significant bits, to nearest, ties to even
RoundMag(m) ==
    IF m < Limit THEN m
    ELSE LET u == Ulp(m, 1)
             q == m \div u
             r == m % u
             up == (2 * r > u) \/ (2 * r = u /\ q % 2 = 1)
         IN  (IF up THEN q + 1 ELSE q) * u

RoundF(n) == IF n < 0 THEN 0 - RoundMag(0 - n) ELSE RoundMag(n)

IsFloat(n) == RoundF(n) = n

\* T's + and -
add(a, b) == RoundF(a + b)
sub(a, b) == RoundF(a - b)

\* a / T::from(2.0): exact unless a is an odd number of units, then a tie that
\* goes to the even neighbour
HalfMag(m) ==
    IF m % 2 = 0 THEN m \div 2
    ELSE IF ((m - 1) \div 2) % 2 = 0 THEN (m - 1) \div 2 ELSE (m + 1) \div 2

half(a) == IF a < 0 THEN 0 - HalfMag(0 - a) ELSE HalfMag(a)

min(i, n) == IF i < n THEN i ELSE n
max(i, n) == IF i > n THEN i ELSE n

-----------------------------------------------------------------------------
(* Vector2 and Rect *)

Vector2(x, y) == [x |-> x, y |-> y]

Rect(left, top, width, height) ==
    [left |-> left, top |-> top, width |-> width, height |-> height]

\* contains with the right and bottom edges taken in (the source's "<= ?")
contains_closed(self, position) ==
    LET x == position.x
        y == position.y
        min_x == min(self.left, add(self.left, self.width))
        max_x == max(self.left, add(self.left, self.width))
        min_y == min(self.top, add(self.top, self.height))
        max_y == max(self.top, add(self.top, self.height))
    IN  x >= min_x /\ x <= max_x /\ y >= min_y /\ y <= max_y

\* contains testing the x axis only
contains_x_only(self, position) ==
    LET x == position.x
        min_x == min(self.left, add(self.left, self.width))
        max_x == max(self.left, add(self.left, self.width))
    IN  x >= min_x /\ x < max_x

contains(self, position) ==
    LET x == position.x
        y == position.y
        min_x == min(self.left, add(self.left, self.width))
        max_x == max(self.left, add(self.left, self.width))
        min_y == min(self.top, add(self.top, self.height))
        max_y == max(self.top, add(self.top, self.height))
    IN  x >= min_x /\ x < max_x /\ y >= min_y /\ y < max_y

\* Option<Rect>: <<>> is None, <<r>> is Some(r)
overlap(self, rect) ==
    LET s_min_x == min(self.left, add(self.left, self.width))
        s_max_x == max(self.left, add(self.left, self.width))
        s_min_y == min(self.top, add(self.top, self.height))
        s_max_y == max(self.top, add(self.top, self.height))
        r_min_x == min(rect.left, add(rect.left, rect.width))
        r_max_x == max(rect.left, add(rect.left, rect.width))
        r_min_y == min(rect.top, add(rect.top, rect.height))
        r_max_y == max(rect.top, add(rect.top, rect.height))
        left == max(s_min_x, r_min_x)
        top == max(s_min_y, r_min_y)
        right == min(s_max_x, r_max_x)
        bottom == min(s_max_y, r_max_y)
    IN  IF left < right /\ top < bottom
        THEN <<Rect(left, top, sub(right, left), sub(top, bottom))>>
        ELSE <<>>

-----------------------------------------------------------------------------
(* Quadtree.  quads is an Option<Vec<Quadtree>>: <<>> is None, a sequence   *)
(* of four nodes is Some.                                                   *)

new(bounds, capacity) ==
    [bounds |-> bounds, capacity |-> capacity, max_capacity |-> capacity,
     children |-> <<>>, quads |-> <<>>]

set_bounds(self, bounds) == [self EXCEPT !.bounds = bounds]

set_capacity(self, capacity) ==
    [self EXCEPT !.capacity = capacity, !.children = <<>>]

set_quads(self) ==
    [self EXCEPT !.quads = [idx \in 1..4 |-> new(self.bounds, self.capacity)]]

\* the four children built with the node's capacity, not its max_capacity
quadrants_capacity(self) ==
    LET x == self.bounds.left
        y == self.bounds.top
        w == half(self.bounds.width)
        h == half(self.bounds.height)
        quad == new(self.bounds, self.capacity)
    IN  << [quad EXCEPT !.bounds = Rect(x, y, w, h)],
           [quad EXCEPT !.bounds = Rect(add(x, w), y, w, h)],
           [quad EXCEPT !.bounds = Rect(add(x, w), add(y, h), w, h)],
           [quad EXCEPT !.bounds = Rect(x, add(y, h), w, h)] >>

\* the four children divide builds, in the order NW, NE, SE, SW
quadrants(self) ==
    LET x == self.bounds.left
        y == self.bounds.top
        w == half(self.bounds.width)
        h == half(self.bounds.height)
        quad == new(self.bounds, self.max_capacity)
    IN  << [quad EXCEPT !.bounds = Rect(x, y, w, h)],
           [quad EXCEPT !.bounds = Rect(add(x, w), y, w, h)],
           [quad EXCEPT !.bounds = Rect(add(x, w), add(y, h), w, h)],
           [quad EXCEPT !.bounds = Rect(x, add(y, h), w, h)] >>

\* divide taking the node's own points out of it
divide_taking(self) ==
    IF self.quads # <<>> THEN self
    ELSE [self EXCEPT !.quads = quadrants(self), !.children = <<>>]

\* divide without its first if: an internal node is divided again
divide_again(self) == [self EXCEPT !.quads = quadrants(self)]

divide(self) ==
    IF self.quads # <<>> THEN self
    ELSE [self EXCEPT !.quads = quadrants(self)]

\* the test with <= for <
has_room_full(self) == Len(self.children) <= self.capacity /\ self.quads = <<>>

\* the test of insert's second if: the node stores the point itself
has_room(self) == Len(self.children) < self.capacity /\ self.quads = <<>>

RECURSIVE insert(_, _)
RECURSIVE insert_quads(_, _, _)

\* insert storing the point before it looks at the bounds
insert_unchecked(self, location_) ==
    IF has_room(self)
    THEN [ok |-> TRUE,
          node |-> [self EXCEPT !.children = Append(@, location_)]]
    ELSE IF ~contains(self.bounds, location_) THEN [ok |-> FALSE, node |-> self]
    ELSE insert_quads(IF self.quads = <<>> THEN divide(self) ELSE self,
                      location_, 1)

\* insert returns the bool and leaves the node changed: [ok, node]
insert(self, location_) ==
    IF ~contains(self.bounds, location_) THEN [ok |-> FALSE, node |-> self]
    ELSE IF has_room(self)
    THEN [ok |-> TRUE,
          node |-> [self EXCEPT !.children = Append(@, location_)]]
    ELSE insert_quads(IF self.quads = <<>> THEN divide(self) ELSE self,
                      location_, 1)

\* the for loop going on after a quad took the point
insert_quads_all(self, location_, idx) ==
    IF idx > Len(self.quads) THEN [ok |-> FALSE, node |-> self]
    ELSE LET r == insert(self.quads[idx], location_)
             after == [self EXCEPT !.quads[idx] = r.node]
             rest == insert_quads(after, location_, idx + 1)
         IN  [ok |-> r.ok \/ rest.ok, node |-> rest.node]

\* the for loop over quads, from the idx-th quad on: the first quad whose
\* insert returns true ends it; a quad whose insert returned false keeps what
\* that call did to it
insert_quads(self, location_, idx) ==
    IF idx > Len(self.quads) THEN [ok |-> FALSE, node |-> self]
    ELSE LET r == insert(self.quads[idx], location_)
             after == [self EXCEPT !.quads[idx] = r.node]
         IN  IF r.ok THEN [ok |-> TRUE, node |-> after]
             ELSE insert_quads(after, location_, idx + 1)

RECURSIVE query(_, _)
RECURSIVE query_quads(_, _, _)

\* query leaving out the points an internal node holds itself
query_leaves(self, range_) ==
    IF overlap(self.bounds, range_) = <<>> THEN <<>>
    ELSE IF self.quads = <<>>
         THEN SelectSeq(self.children, LAMBDA child : contains(range_, child))
         ELSE query_quads(self, range_, 1)

query(self, range_) ==
    IF overlap(self.bounds, range_) = <<>> THEN <<>>
    ELSE LET children_in_range ==
                 SelectSeq(self.children, LAMBDA child : contains(range_, child))
         IN  IF self.quads = <<>> THEN children_in_range
             ELSE children_in_range \o query_quads(self, range_, 1)

\* the quads' results put together from the last quad to the first
query_quads_backwards(self, range_, idx) ==
    IF idx > Len(self.quads) THEN <<>>
    ELSE query_quads(self, range_, idx + 1) \o query(self.quads[idx], range_)

query_quads(self, range_, idx) ==
    IF idx > Len(self.quads) THEN <<>>
    ELSE query(self.quads[idx], range_) \o query_quads(self, range_, idx + 1)

\* clear emptying children only
clear_children(self) == [self EXCEPT !.children = <<>>]

clear(self) == [self EXCEPT !.children = <<>>, !.quads = <<>>]

-----------------------------------------------------------------------------
(* The inputs of the model *)

\* main.rs: const MAX_CAP
MAX_CAP == 2

\* the root covers [4, 8) x [4, 8), with positive or with negative extents
RootBounds == {Rect(4, 4, 4, 4), Rect(8, 8, -4, -4)}
Capacities == 0..MAX_CAP

\* points inside the root and on its right and bottom edges
Coords == {4, 6, 8}
Points == {Vector2(x, y) : x \in Coords, y \in Coords}

\* the left half of the root, and its right half with negative extents
QueryRanges == {Rect(4, 4, 2, 4), Rect(8, 8, -2, -4)}

NoAccepted == [p \in Points |-> 0]
NotWiped == [points |-> 0, nodes |-> 0]

-----------------------------------------------------------------------------
(* Walking the tree: a path is the sequence of quad indices (1 = NW, 2 =   *)
(* NE, 3 = SE, 4 = SW) from the root to a node.                             *)

RECURSIVE Paths(_)
Paths(self) ==
    {<<>>} \cup UNION {{<<idx>> \o path : path \in Paths(self.quads[idx])} :
                          idx \in DOMAIN self.quads}

RECURSIVE NodeAt(_, _)
NodeAt(self, path) ==
    IF path = <<>> THEN self ELSE NodeAt(self.quads[Head(path)], Tail(path))

IsLeaf(self) == self.quads = <<>>

\* how often p occurs in a sequence of points
Count(points, p) == Cardinality({i \in DOMAIN points : points[i] = p})

\* every point stored in the tree: a node's own, then those of its quads
RECURSIVE AllPoints(_)
RECURSIVE AllPointsOfQuads(_, _)
AllPoints(self) == self.children \o AllPointsOfQuads(self, 1)
AllPointsOfQuads(self, idx) ==
    IF idx > Len(self.quads) THEN <<>>
    ELSE AllPoints(self.quads[idx]) \o AllPointsOfQuads(self, idx + 1)

\* how often p is stored in the children of the nodes of the tree
Stored(self, p) == Count(AllPoints(self), p)

StoredTotal(self) == Len(AllPoints(self))

-----------------------------------------------------------------------------
(* The caller: new, then the builder calls in the order of main, then any   *)
(* sequence of insert, query and clear.                                     *)

Init ==
    /\ \E b \in RootBounds, c \in Capacities : tree = new(b, c)
    /\ op = "new"
    /\ location = <<>>
    /\ ret = FALSE
    /\ range = <<>>
    /\ found = <<>>
    /\ accepted = NoAccepted
    /\ inserts = 0
    /\ wiped = NotWiped
    /\ rself = <<>>
    /\ rarg = <<>>
    /\ rres = <<>>

SetBounds ==
    /\ op = "new"
    /\ \E b \in RootBounds : tree' = set_bounds(tree, b)
    /\ op' = "set_bounds"
    /\ UNCHANGED <<location, ret, range, found, accepted, inserts, wiped>>
    /\ UNCHANGED rectVars

SetCapacity ==
    /\ op \in {"new", "set_bounds"}
    /\ \E c \in Capacities : tree' = set_capacity(tree, c)
    /\ op' = "set_capacity"
    /\ UNCHANGED <<location, ret, range, found, accepted, inserts, wiped>>
    /\ UNCHANGED rectVars

SetQuads ==
    /\ op \in {"new", "set_bounds", "set_capacity"}
    /\ tree' = set_quads(tree)
    /\ op' = "set_quads"
    /\ UNCHANGED <<location, ret, range, found, accepted, inserts, wiped>>
    /\ UNCHANGED rectVars

Insert ==
    /\ inserts < MaxInserts
    /\ \E p \in Points : \E r \in {insert(tree, p)} :
          /\ tree' = r.node
          /\ ret' = r.ok
          /\ location' = p
          /\ accepted' = IF r.ok THEN [accepted EXCEPT ![p] = @ + 1]
                                 ELSE accepted
    /\ op' = "insert"
    /\ inserts' = inserts + 1
    /\ range' = <<>>
    /\ found' = <<>>
    /\ wiped' = NotWiped
    /\ UNCHANGED rectVars

Query ==
    /\ \E q \in QueryRanges \cup {tree.bounds} :
          /\ range' = q
          /\ found' = query(tree, q)
    /\ op' = "query"
    /\ location' = <<>>
    /\ ret' = FALSE
    /\ wiped' = NotWiped
    /\ UNCHANGED <<tree, accepted, inserts>>
    /\ UNCHANGED rectVars

Clear ==
    /\ tree' = clear(tree)
    /\ op' = "clear"
    /\ location' = <<>>
    /\ ret' = FALSE
    /\ range' = <<>>
    /\ found' = <<>>
    /\ accepted' = NoAccepted
    /\ inserts' = 0
    /\ wiped' = [points |-> StoredTotal(tree), nodes |-> Cardinality(Paths(tree))]
    /\ UNCHANGED rectVars

Next ==
    \/ SetBounds
    \/ SetCapacity
    \/ SetQuads
    \/ Insert
    \/ Query
    \/ Clear

Spec == Init /\ [][Next]_vars

-----------------------------------------------------------------------------
(* The Rect operations on their own: a receiver and an argument drawn from  *)
(* small sets, then contains or overlap applied to them.                    *)

RectLefts == {0, 1, 2, 4}
RectWidths == {-2, -1, 0, 1, 2}
RectTops == {0, 2}
RectHeights == {-2, 1, 2}

Rects == {Rect(l, t, w, h) : l \in RectLefts, t \in RectTops,
                             w \in RectWidths, h \in RectHeights}
RectPoints == {Vector2(x, y) : x \in {0, 1, 2, 3, 4}, y \in {0, 1, 2, 3}}

IsPoint(v) == DOMAIN v = {"x", "y"}

InitRect ==
    /\ tree = new(Rect(4, 4, 4, 4), MAX_CAP)
    /\ op = "new"
    /\ location = <<>>
    /\ ret = FALSE
    /\ range = <<>>
    /\ found = <<>>
    /\ accepted = NoAccepted
    /\ inserts = 0
    /\ wiped = NotWiped
    /\ rself \in Rects
    /\ rarg \in Rects \cup RectPoints
    /\ rres = <<>>

Contains ==
    /\ op = "new"
    /\ IsPoint(rarg)
    /\ rres' = contains(rself, rarg)
    /\ op' = "contains"
    /\ UNCHANGED <<tree, location, ret, range, found, accepted, inserts, wiped>>
    /\ UNCHANGED <<rself, rarg>>

Overlap ==
    /\ op = "new"
    /\ ~IsPoint(rarg)
    /\ rres' = overlap(rself, rarg)
    /\ op' = "overlap"
    /\ UNCHANGED <<tree, location, ret, range, found, accepted, inserts, wiped>>
    /\ UNCHANGED <<rself, rarg>>

NextRect ==
    \/ Contains
    \/ Overlap

SpecRect == InitRect /\ [][NextRect]_vars

-----------------------------------------------------------------------------
(* What the claims are stated with *)

\* the children the node at path held before the step, old being the paths
\* of the tree before it; none if the node is new
Before(old, path) ==
    IF path \in old THEN NodeAt(tree, path).children ELSE <<>>

\* the half-open region of a rectangle on one axis, by the sign of its extent
Low(start, extent) == IF extent >= 0 THEN start ELSE add(start, extent)
High(start, extent) == IF extent >= 0 THEN add(start, extent) ELSE start

\* p lies in the region: left and top edges in, right and bottom edges out
Inside(r, p) ==
    /\ Low(r.left, r.width) <= p.x /\ p.x < High(r.left, r.width)
    /\ Low(r.top, r.height) <= p.y /\ p.y < High(r.top, r.height)

-----------------------------------------------------------------------------
\* C1: query(R) returns exactly the multiset of the points whose insert
\* returned true and that R contains, for the root's bounds and for ranges with
\* negative extents, whichever node holds the point.
C1_QueryExact ==
    op = "query" =>
        \A p \in Points :
            Count(found, p) = IF Inside(range, p) THEN accepted[p] ELSE 0

\* a range with negative extents returns a point the internal root holds and
\* a point a child holds
C1_Witness ==
    /\ op = "query"
    /\ range.width < 0
    /\ ~IsLeaf(tree)
    /\ \E i \in DOMAIN found : Count(tree.children, found[i]) > 0
    /\ \E i \in DOMAIN found : Stored(tree, found[i]) > Count(tree.children, found[i])

\* C2: insert returns false only when the root's bounds do not contain the
\* point: a point the root contains is accepted, at any capacity and depth.
C2_InsertAccepts ==
    (op = "insert" /\ Inside(tree.bounds, location)) => ret = TRUE

\* C3: inserting a point the root's bounds do not contain returns false and
\* leaves the whole tree as it was.
C3_Rejection ==
    [][(op' = "insert" /\ ~Inside(tree.bounds, location'))
          => (ret' = FALSE /\ tree' = tree)]_vars

\* a point on the right edge was rejected by a root that is internal and
\* holds points
C3_Witness ==
    /\ op = "insert"
    /\ ~Inside(tree.bounds, location)
    /\ location.x = High(tree.bounds.left, tree.bounds.width)
    /\ ret = FALSE
    /\ ~IsLeaf(tree)
    /\ tree.children # <<>>

\* C4: subdivision does not redistribute: an insert leaves the children of
\* every node that is internal after it as they were, in the same order, and a
\* point it accepts goes to a leaf.
C4_NoRedistribution ==
    [][op' = "insert" =>
          \E old \in {Paths(tree)}, now \in {Paths(tree')} :
              /\ \A path \in now :
                     ~IsLeaf(NodeAt(tree', path))
                         => NodeAt(tree', path).children = Before(old, path)
              /\ ret' = TRUE =>
                     \E path \in now :
                         /\ IsLeaf(NodeAt(tree', path))
                         /\ NodeAt(tree', path).children
                                = Append(Before(old, path), location')]_vars

\* the root was subdivided with two points in it and a later point went below
C4_Witness ==
    /\ op = "insert"
    /\ ret = TRUE
    /\ ~IsLeaf(tree)
    /\ Len(tree.children) = 2
    /\ tree.children[1] # tree.children[2]
    /\ \E idx \in DOMAIN tree.quads : location \in
           {tree.quads[idx].children[i] : i \in DOMAIN tree.quads[idx].children}

\* C5: an insert that returns true adds one copy of the point to the children
\* of one node and changes no other node's children; an insert that returns
\* false adds none; so the points stored over all nodes are the points whose
\* insert returned true, as multisets.
C5_NoLossNoDup ==
    [][/\ \E all \in {AllPoints(tree')} :
              /\ \A p \in Points : Count(all, p) = accepted'[p]
              /\ \A i \in DOMAIN all : all[i] \in Points
       /\ op' = "insert" =>
             \E old \in {Paths(tree)}, now \in {Paths(tree')} :
                 \E changed \in {{path \in now :
                        NodeAt(tree', path).children # Before(old, path)}} :
                     /\ old \subseteq now
                     /\ IF ret'
                        THEN \E path \in now :
                                /\ changed = {path}
                                /\ NodeAt(tree', path).children
                                       = Append(Before(old, path), location')
                        ELSE changed = {}]_vars

\* the same point was accepted twice, by a root with four quads
C5_Witness ==
    /\ op = "insert"
    /\ ret = TRUE
    /\ accepted[location] >= 2
    /\ ~IsLeaf(tree)

\* C6: every leaf of the tree, at every depth, holds at most capacity points.
C6_LeafCapacity ==
    \A path \in Paths(tree) :
        IsLeaf(NodeAt(tree, path))
            => Len(NodeAt(tree, path).children) <= NodeAt(tree, path).capacity

\* a leaf below the root is full with two points
C6_Witness ==
    \E path \in Paths(tree) \ {<<>>} :
        /\ IsLeaf(NodeAt(tree, path))
        /\ NodeAt(tree, path).capacity = 2
        /\ Len(NodeAt(tree, path).children) = 2

\* the floating-point values a point's coordinate is tried at
TileCoords == {n \in 0..12 : IsFloat(n)}
TilePoints == {Vector2(x, y) : x \in TileCoords, y \in TileCoords}

\* the node at path was subdivided by the step, old being the paths of the
\* tree before it
Subdivided(old, path) ==
    /\ ~IsLeaf(NodeAt(tree', path))
    /\ path \in old => IsLeaf(NodeAt(tree, path))

\* C7: when insert subdivides a node its four children get the bounds
\* (left, top, w, h), (left+w, top, w, h), (left+w, top+h, w, h),
\* (left, top+h, w, h) with w = width/2 and h = height/2, and tile it: the
\* parent contains a point if and only if exactly one child contains it, at
\* every depth.
C7_Tiling ==
    [][op' = "insert" =>
          \A path \in Paths(tree') :
              Subdivided(Paths(tree), path) =>
                  LET node == NodeAt(tree', path)
                      b == node.bounds
                      w == half(b.width)
                      h == half(b.height)
                  IN  /\ [idx \in 1..4 |-> node.quads[idx].bounds]
                            = << Rect(b.left, b.top, w, h),
                                 Rect(add(b.left, w), b.top, w, h),
                                 Rect(add(b.left, w), add(b.top, h), w, h),
                                 Rect(b.left, add(b.top, h), w, h) >>
                      /\ \A p \in TilePoints :
                             Inside(b, p) <=>
                                 Cardinality({idx \in 1..4 :
                                     Inside(node.quads[idx].bounds, p)}) = 1]_vars

\* C8: clear leaves the node a fresh leaf: children empty, quads absent,
\* bounds, capacity and max_capacity as before; query(bounds) is then empty
\* and an insert behaves as on a newly configured tree.
C8_ClearResets ==
    [][op' = "clear" =>
          /\ tree' = [bounds |-> tree.bounds, capacity |-> tree.capacity,
                      max_capacity |-> tree.max_capacity,
                      children |-> <<>>, quads |-> <<>>]
          /\ query(tree', tree'.bounds) = <<>>
          /\ \A p \in Points :
                 insert(tree', p)
                     = insert(set_capacity(new(tree.bounds, tree.max_capacity),
                                           tree.capacity), p)]_vars

\* a clear that removed points from a tree of several nodes
C8_Witness ==
    /\ op = "clear"
    /\ wiped.points >= 2
    /\ wiped.nodes > 1
    /\ IsLeaf(tree)
    /\ tree.children = <<>>

\* C9: overlap returns {left, top, width = right - left, height = bottom - top}
\* of the normalised rectangles when left < right and top < bottom, and no
\* overlap otherwise.
C9_Overlap ==
    op = "overlap" =>
        LET left == max(Low(rself.left, rself.width), Low(rarg.left, rarg.width))
            top == max(Low(rself.top, rself.height), Low(rarg.top, rarg.height))
            right == min(High(rself.left, rself.width), High(rarg.left, rarg.width))
            bottom == min(High(rself.top, rself.height), High(rarg.top, rarg.height))
        IN  rres = IF left < right /\ top < bottom
                   THEN <<Rect(left, top, sub(right, left), sub(bottom, top))>>
                   ELSE <<>>

\* two rectangles cover the same region
SameRegion(a, b) ==
    /\ Low(a.left, a.width) = Low(b.left, b.width)
    /\ High(a.left, a.width) = High(b.left, b.width)
    /\ Low(a.top, a.height) = Low(b.top, b.height)
    /\ High(a.top, a.height) = High(b.top, b.height)

\* C10: contains is true exactly for the points of the half-open region,
\* left and top edges in, right and bottom edges out, whatever the signs of
\* width and height; a rectangle with negative extents answers as the
\* rectangle with positive extents that covers the same region.
C10_Contains ==
    op = "contains" =>
        /\ rres = Inside(rself, rarg)
        /\ \A r \in Rects :
               (r.width >= 0 /\ r.height >= 0 /\ SameRegion(r, rself))
                   => contains(r, rarg) = rres

\* a rectangle with negative extents contains the point on its inclusive
\* corner, and a rectangle with positive extents covers its region
C10_Witness ==
    /\ op = "contains"
    /\ rself.width < 0
    /\ rself.height < 0
    /\ rarg = Vector2(add(rself.left, rself.width), add(rself.top, rself.height))
    /\ rres = TRUE
    /\ \E r \in Rects : r.width > 0 /\ r.height > 0 /\ SameRegion(r, rself)

\* the node's four quads carry the node's own bounds: set_quads made them
Preset(self) ==
    /\ ~IsLeaf(self)
    /\ \A idx \in DOMAIN self.quads : self.quads[idx].bounds = self.bounds

\* the number of levels of a tree with these paths
Levels(paths) ==
    LET lengths == {Len(path) : path \in paths}
    IN  1 + CHOOSE n \in lengths : \A k \in lengths : k <= n

\* C11: a node subdivides exactly when an insert of a point its bounds
\* contain reaches it while it is a leaf with len(children) = capacity; into a
\* leaf with room the point is appended, insert returns true and no children
\* are made; into a full leaf the four children are made and the point is
\* stored below the node, never in the node itself.
C11_SubdivideWhenFull ==
    [][op' = "insert" =>
          \A path \in Paths(tree) :
              \E node \in {NodeAt(tree, path)} :
              \E r \in {insert(node, location')} :
                  /\ (/\ Inside(node.bounds, location')
                      /\ IsLeaf(node)
                      /\ Len(node.children) < node.capacity)
                        => /\ r.ok
                           /\ r.node = [node EXCEPT
                                           !.children = Append(@, location')]
                  /\ (/\ Inside(node.bounds, location')
                      /\ IsLeaf(node)
                      /\ Len(node.children) = node.capacity)
                        => /\ Len(r.node.quads) = 4
                           /\ r.node.children = node.children
                           /\ r.ok
                           /\ Stored(r.node, location')
                                  = Count(node.children, location') + 1
                  /\ (IsLeaf(node) /\ ~IsLeaf(r.node))
                        => /\ Inside(node.bounds, location')
                           /\ Len(node.children) = node.capacity]_vars

\* a root built as new(bounds, c) with c >= 1, set_capacity(0), set_quads()
Routing(self) ==
    /\ Preset(self)
    /\ self.capacity = 0
    /\ self.max_capacity >= 1

\* C12: a routing root, new(bounds, c) with c >= 1, then set_capacity(0), then
\* set_quads(), accepts every point its bounds contain, stores it in a
\* descendant and keeps its own children empty.
C12_RoutingRoot ==
    (op = "insert" /\ Routing(tree) /\ Inside(tree.bounds, location))
        => /\ ret = TRUE
           /\ tree.children = <<>>
           /\ Stored(tree, location) >= 1

\* C13: set_quads() on a leaf with bounds B and capacity c leaves it internal
\* with four empty leaves of capacity c whose bounds are the four equal
\* quadrants of B in the order NW, NE, SE, SW, as subdivision makes them.
C13_SetQuads ==
    op = "set_quads" =>
        LET b == tree.bounds
            w == half(b.width)
            h == half(b.height)
        IN  /\ Len(tree.quads) = 4
            /\ \A idx \in DOMAIN tree.quads :
                   /\ IsLeaf(tree.quads[idx])
                   /\ tree.quads[idx].children = <<>>
                   /\ tree.quads[idx].capacity = tree.capacity
            /\ [idx \in 1..4 |-> tree.quads[idx].bounds]
                  = << Rect(b.left, b.top, w, h),
                       Rect(add(b.left, w), b.top, w, h),
                       Rect(add(b.left, w), add(b.top, h), w, h),
                       Rect(b.left, add(b.top, h), w, h) >>

\* C14: every node made by subdivision, at every depth, has capacity and
\* max_capacity equal to the capacity new() was given for the root, whatever
\* set_capacity made of the root's capacity since.
C14_ChildCapacity ==
    \A path \in Paths(tree) :
        (Len(path) >= 1 /\ ~(Len(path) = 1 /\ Preset(tree)))
            => /\ NodeAt(tree, path).capacity = tree.max_capacity
               /\ NodeAt(tree, path).max_capacity = tree.max_capacity

\* C15: an internal node stays internal with the same four child bounds in
\* the same order through every step but clear, and subdividing an internal
\* node changes nothing: not its four children, not what is stored below.
C15_StaysInternal ==
    [][op' # "clear" =>
          \E now \in {Paths(tree')} :
              \A path \in Paths(tree) :
                  \E node \in {NodeAt(tree, path)} :
                      ~IsLeaf(node)
                          => /\ path \in now
                             /\ [idx \in 1..4 |->
                                    NodeAt(tree', path).quads[idx].bounds]
                                  = [idx \in 1..4 |-> node.quads[idx].bounds]
                             /\ divide(node) = node]_vars

\* an insert has met the root internal and stored a second point below it
C15_Witness ==
    /\ op = "insert"
    /\ ret = TRUE
    /\ ~IsLeaf(tree)
    /\ StoredTotal(tree) - Len(tree.children) >= 2

\* C16: query returns, for every node, the node's own matching points first,
\* in the order they were inserted, then the results of its four children in
\* the order NW, NE, SE, SW; asked again it returns the same sequence, and it
\* changes nothing in the tree.
C16_QueryOrder ==
    [][op' = "query" =>
          /\ tree' = tree
          /\ found' = SelectSeq(AllPoints(tree),
                                LAMBDA p : Inside(range', p))
          /\ query(tree', range') = found']_vars

\* a query has returned a point of the root and points of two of its quads
C16_Witness ==
    /\ op = "query"
    /\ Len(found) >= 3
    /\ tree.children # <<>>
    /\ found[1] = tree.children[1]
    /\ \E i, j \in DOMAIN tree.quads :
           /\ i < j
           /\ tree.quads[i].children # <<>>
           /\ tree.quads[j].children # <<>>
           /\ tree.quads[i].children[1] # tree.quads[j].children[1]
           /\ Inside(range, tree.quads[i].children[1])
           /\ Inside(range, tree.quads[j].children[1])

\* C17: every point a node holds in its children lies inside that node's
\* bounds and inside the bounds of each of its ancestors up to the root.
C17_PointsInBounds ==
    \A path \in Paths(tree) :
        \A k \in 0..Len(path) :
            \A i \in DOMAIN NodeAt(tree, path).children :
                Inside(NodeAt(tree, SubSeq(path, 1, k)).bounds,
                       NodeAt(tree, path).children[i])

\* an insert has stored a point two levels below the root
C17_Witness ==
    /\ op = "insert"
    /\ ret = TRUE
    /\ \E path \in Paths(tree) :
           /\ Len(path) >= 2
           /\ \E i \in DOMAIN NodeAt(tree, path).children :
                  NodeAt(tree, path).children[i] = location

\* C18: whenever insert returns false the tree is exactly as it was before
\* the call: no node has gained a point and no node has been subdivided.
C18_FailedInsertNoChange ==
    [][(op' = "insert" /\ ret' = FALSE) => tree' = tree]_vars

\* C19: in a tree built by new(bounds, c) with c >= 1, without set_quads,
\* every insert subdivides at most one node, and that node was a leaf: the
\* tree gains at most one level of four leaves and keeps every node it had.
C19_OneSubdivision ==
    [][(op' = "insert" /\ tree.max_capacity >= 1 /\ ~Preset(tree)) =>
          \E old \in {Paths(tree)}, now \in {Paths(tree')} :
              /\ Cardinality({path \in now : Subdivided(old, path)}) <= 1
              /\ old \subseteq now
              /\ Cardinality(now) <= Cardinality(old) + 4
              /\ Levels(now) <= Levels(old) + 1
              /\ \A path \in now \ old :
                     /\ IsLeaf(NodeAt(tree', path))
                     /\ SubSeq(path, 1, Len(path) - 1) \in old]_vars

\* an insert into such a tree has stored a point on its third level
C19_Witness ==
    /\ op = "insert"
    /\ ret = TRUE
    /\ tree.max_capacity >= 1
    /\ ~Preset(tree)
    /\ Levels(Paths(tree)) >= 3

=============================================================================
